---- MODULE Spec2Model ----
(***************************************************************************)
(* A model of svgexport.py: the transform evaluator (transform_coordinates),*)
(* the group descent (get_first_ungrouped_element), the coordinate          *)
(* extractor (get_coordinates) and the export loop (parse_and_export).      *)
(*                                                                          *)
(* Numbers: Python floats are modelled as integers.  Angles are multiples   *)
(* of 90 degrees, for which cos and sin are taken exactly (-1, 0, 1); the   *)
(* rounding error of math.cos/math.sin is not modelled.                     *)
(* Optional values (Python None): <<>> is None, <<v>> is the value v.       *)
(* A transformation string 'op(a,b,...)' is the record                      *)
(* [op |-> "op", operand |-> <<a, b, ...>>]: operand is what                *)
(* operand.split(',') yields, each piece already a number.                  *)
(***************************************************************************)
EXTENDS Integers, Sequences, FiniteSets, TLC

\* ------------------------------------------------------------------ bounds
\* Largest magnitude of a coordinate of an input point.
MaxCoord == 4
\* Largest magnitude of a numeric operand of a transformation.
MaxNum == 2
\* Longest operand list of translate / rotate / scale that is enumerated.
MaxOperands == 3

None == <<>>
Some(v) == <<v>>

Abs(n) == IF n < 0 THEN -n ELSE n

Reverse(s) == [i \in 1..Len(s) |-> s[Len(s) + 1 - i]]

\* ------------------------------------------------- transform_coordinates
\* math.cos(math.radians(a)) and math.sin(math.radians(a)), a multiple of 90.
cos_deg(a) ==
  CASE a % 360 = 0 -> 1
    [] a % 360 = 90 -> 0
    [] a % 360 = 180 -> -1
    [] a % 360 = 270 -> 0

sin_deg(a) ==
  CASE a % 360 = 0 -> 0
    [] a % 360 = 90 -> 1
    [] a % 360 = 180 -> 0
    [] a % 360 = 270 -> -1

\* case 'translate' (lines 57-72)
translate(x, y, operand) ==
  LET xt == operand[1]
      yt == IF Len(operand) = 2 THEN operand[2] ELSE 0
  IN  <<x + xt, y + yt>>

\* case 'matrix' (lines 73-78)
matrix(x, y, operand) ==
  LET ma == operand[1]
      mb == operand[2]
      mc == operand[3]
      md == operand[4]
      me == operand[5]
      mf == operand[6]
  IN  <<(ma * x) + (mc * y) + me, (mb * x) + (md * y) + mf>>

\* An operand dispatch that reuses the second operand for cy.
rotate_operands_cy_from_cx(operand) ==
  IF Len(operand) = 3 THEN <<operand[1], operand[2], operand[3]>>
  ELSE IF Len(operand) = 2 THEN <<operand[1], operand[2], operand[2]>>
  ELSE <<operand[1], 0, 0>>

\* The operands of rotate as lines 81-89 leave them in <<at, xt, yt>>: the
\* second test is an `if`, not an `elif`, so its else branch also runs for
\* three operands (and reassigns at to the same operand).
rotate_operands(operand) ==
  LET s0 == <<0, 0, 0>>
      s1 == IF Len(operand) = 3
            THEN <<operand[1], operand[2], operand[3]>>
            ELSE s0
      s2 == IF Len(operand) = 2
            THEN <<operand[1], operand[2], s1[3]>>
            ELSE <<operand[1], s1[2], s1[3]>>
  IN  s2

\* case 'rotate' (lines 79-107)
rotate(x, y, operand) ==
  LET o == rotate_operands(operand)
      at == o[1]
      xt == o[2]
      yt == o[3]
      x_shift == x - xt
      y_shift == y - yt
      xr == (x_shift * cos_deg(at)) - (y_shift * sin_deg(at))
      yr == (x_shift * sin_deg(at)) + (y_shift * cos_deg(at))
  IN  <<xr + xt, yr + yt>>

\* A scale that multiplies, as an affine scale would.
scale_multiplying(x, y, operand) ==
  LET xt == operand[1]
      yt == IF Len(operand) = 2 THEN operand[2] ELSE operand[1]
  IN  <<x * xt, y * yt>>

\* case 'scale' (lines 108-126): only the sign of the operands is used.
scale(x, y, operand) ==
  LET xt == operand[1]
      yt == IF Len(operand) = 2 THEN operand[2] ELSE operand[1]
  IN  <<IF xt < 0 THEN -x ELSE x, IF yt < 0 THEN -y ELSE y>>

\* transform_coordinates(x, y, transformation): an operation that matches no
\* case leaves the point as it is.
transform_coordinates(x, y, transformation) ==
  LET operation == transformation.op
      operand == transformation.operand
  IN  CASE operation = "translate" -> translate(x, y, operand)
        [] operation = "matrix" -> matrix(x, y, operand)
        [] operation = "rotate" -> rotate(x, y, operand)
        [] operation = "scale" -> scale(x, y, operand)
        [] OTHER -> <<x, y>>

\* --------------------------------------------- inputs of the evaluator
Coords == (-MaxCoord)..MaxCoord
Nums == (-MaxNum)..MaxNum
Angles == {-90, 0, 90, 180, 270, 450}

RECURSIVE Tuples(_, _)
\* All sequences of length n over S.
Tuples(S, n) ==
  IF n = 0 THEN {<<>>}
  ELSE {Append(t, v) : t \in Tuples(S, n - 1), v \in S}

Operands == UNION {Tuples(Nums, n) : n \in 1..MaxOperands}

RotateOperands ==
  {<<a>> \o t : a \in Angles, t \in UNION {Tuples(Nums, n) : n \in 0..(MaxOperands - 1)}}

MatrixOperands == Tuples({-1, 0, 1}, 6)

Descriptors ==
  {[op |-> o, operand |-> t] : o \in {"translate", "scale", "skewX"}, t \in Operands}
    \cup {[op |-> "rotate", operand |-> t] : t \in RotateOperands}
    \cup {[op |-> "matrix", operand |-> t] : t \in MatrixOperands}

\* ------------------------------------------------------------ elements
\* An xml.etree Element: ref stands for the object's identity (the path of
\* child positions that leads to it), tag is the tag without its namespace,
\* attrib maps attribute names to values, children is the child list.
\* The value of a path's d attribute 'M x,y ...' is [cmd |-> "M", pts |->
\* <<<<x, y>>, ...>>]; the empty string is EmptyD.
Elem(tag, attrib, children) ==
  [ref |-> <<>>, tag |-> tag, attrib |-> attrib, children |-> children]

EmptyD == [cmd |-> "", pts |-> <<>>]

\* e.attrib.get(k)
Get(attrib, k) == IF k \in DOMAIN attrib THEN Some(attrib[k]) ELSE None

RECURSIVE Relabel(_, _)
\* The tree e placed at path p: every node gets its own identity.
Relabel(e, p) ==
  [e EXCEPT !.ref = p,
            !.children = [i \in 1..Len(e.children) |->
                            Relabel(e.children[i], Append(p, i))]]

\* -------------------------------------------- get_first_ungrouped_element
\* next(element_iter) on a group without children raises StopIteration.
StopIteration == [raised |-> TRUE, element |-> None, gtransforms |-> <<>>]

RECURSIVE get_first_ungrouped_element_prepend(_)
\* A descent that puts the current group's transform in front of the list.
get_first_ungrouped_element_prepend(e) ==
  IF Len(e.children) = 0 THEN StopIteration
  ELSE
    LET next_element == e.children[1]
        sub == IF next_element.tag = "g"
               THEN get_first_ungrouped_element_prepend(next_element)
               ELSE [raised |-> FALSE, element |-> Some(next_element),
                     gtransforms |-> <<>>]
        t == Get(e.attrib, "transform")
    IN  IF sub.raised THEN sub
        ELSE [raised |-> FALSE, element |-> sub.element,
              gtransforms |-> IF t # None
                              THEN <<t[1]>> \o sub.gtransforms
                              ELSE sub.gtransforms]

RECURSIVE get_first_ungrouped_element(_)
\* get_first_ungrouped_element(e) (lines 131-152): the result, or the
\* StopIteration that leaves the function through every recursive call.
get_first_ungrouped_element(e) ==
  IF Len(e.children) = 0 THEN StopIteration
  ELSE
    LET next_element == e.children[1]
        sub == IF next_element.tag = "g"
               THEN get_first_ungrouped_element(next_element)
               ELSE [raised |-> FALSE, element |-> Some(next_element),
                     gtransforms |-> <<>>]
        t == Get(e.attrib, "transform")
    IN  IF sub.raised THEN sub
        ELSE [raised |-> FALSE, element |-> sub.element,
              gtransforms |-> IF t # None
                              THEN Append(sub.gtransforms, t[1])
                              ELSE sub.gtransforms]

\* ---------------------------------------------- inputs of the descent
\* Deepest nesting of groups that is enumerated.
MaxDepth == 3

T1 == [op |-> "translate", operand |-> <<5, 0>>]
T2 == [op |-> "rotate", operand |-> <<90>>]
T3 == [op |-> "scale", operand |-> <<-1, 1>>]

GroupAttribs == {[label |-> "g"], [label |-> "g", transform |-> T1],
                 [label |-> "g", transform |-> T2]}

DescentLeaves ==
  {Elem("rect", [x |-> 5, y |-> 5], <<>>),
   Elem("circle", [cx |-> 1, cy |-> 2, transform |-> T3], <<>>),
   Elem("path", [d |-> [cmd |-> "M", pts |-> <<<<3, 4>>>>]], <<>>)}

\* What may follow the first child of a group.
Siblings ==
  {<<>>,
   <<Elem("text", [x |-> 7, y |-> 7, transform |-> T3], <<>>)>>,
   <<Elem("g", [label |-> "g", transform |-> T3],
          <<Elem("rect", [x |-> 9, y |-> 9], <<>>)>>)>>}

RECURSIVE GroupsUpTo(_)
\* The groups nested at most n deep, empty groups included.
GroupsUpTo(n) ==
  IF n = 0 THEN {}
  ELSE
    LET firsts == DescentLeaves \cup GroupsUpTo(n - 1)
    IN  {Elem("g", a, <<>>) : a \in GroupAttribs}
          \cup {Elem("g", a, <<f>> \o s) :
                  a \in GroupAttribs, f \in firsts, s \in Siblings}

DescentInputs == {Relabel(g, <<1>>) : g \in GroupsUpTo(MaxDepth)}

\* ------------------------------------------------------- get_coordinates
\* The pair <<x, y>> of optional raw values that lines 17-30 leave in x and y.
raw_xy(e) ==
  CASE e.tag \in {"circle", "ellipse"} ->
         <<Get(e.attrib, "cx"), Get(e.attrib, "cy")>>
    [] e.tag = "path" ->
         LET d == Get(e.attrib, "d")
         IN  IF d # None /\ d[1] # EmptyD
             THEN <<Some(d[1].pts[1][1]), Some(d[1].pts[1][2])>>
             ELSE <<None, None>>
    [] OTHER -> <<Get(e.attrib, "x"), Get(e.attrib, "y")>>

\* An extractor that reads a missing position attribute as 0.
get_coordinates_default_zero(e) ==
  LET r == raw_xy(e)
      x == IF r[1] = None THEN 0 ELSE r[1][1]
      y == IF r[2] = None THEN 0 ELSE r[2][1]
      transformation == Get(e.attrib, "transform")
  IN  IF transformation # None
      THEN Some(transform_coordinates(x, y, transformation[1]))
      ELSE Some(<<x, y>>)

\* get_coordinates(e) (lines 13-43): None, or the anchor with the element's
\* own transform applied.
get_coordinates(e) ==
  LET r == raw_xy(e)
  IN  IF r[1] = None \/ r[2] = None THEN None
      ELSE
        LET x == r[1][1]
            y == r[2][1]
            transformation == Get(e.attrib, "transform")
        IN  IF transformation # None
            THEN Some(transform_coordinates(x, y, transformation[1]))
            ELSE Some(<<x, y>>)

\* ------------------------------------------- parse_and_export, its steps
\* Lines 183-186: the window of an Export rectangle; None when float() is
\* handed a missing attribute and raises TypeError.
window(rect) ==
  IF {"x", "y", "width", "height"} \subseteq DOMAIN rect.attrib
  THEN Some([x_min |-> rect.attrib.x, y_min |-> rect.attrib.y,
             x_max |-> rect.attrib.width + rect.attrib.x,
             y_max |-> rect.attrib.height + rect.attrib.y])
  ELSE None

\* Lines 175-193: the freshly parsed template with the source's defs appended
\* and the view box set.  children of the output root are defs, then elems.
new_out_svg(defs, w) ==
  [defs |-> defs,
   viewBox |-> <<w.x_min, w.y_min, Abs(w.x_max - w.x_min), Abs(w.y_max - w.y_min)>>,
   width |-> Abs(w.x_max - w.x_min),
   height |-> Abs(w.y_max - w.y_min),
   elems |-> <<>>]

\* Lines 203-208: the element whose coordinates are read and the group
\* transforms, or the StopIteration of the descent.
descend(e) ==
  IF e.tag = "g"
  THEN LET r == get_first_ungrouped_element(e)
       IN  [raised |-> r.raised, sube |-> r.element,
            gtransform |-> Some(r.gtransforms)]
  ELSE [raised |-> FALSE, sube |-> Some(e), gtransform |-> None]

RECURSIVE apply_in_order(_, _)
apply_in_order(pt, transforms) ==
  IF transforms = <<>> THEN pt
  ELSE apply_in_order(transform_coordinates(pt[1], pt[2], Head(transforms)),
                      Tail(transforms))

\* A fold that applies the collected transforms last to first.
resolve_outermost_first(xy, gtransform) ==
  IF gtransform # None THEN apply_in_order(xy, Reverse(gtransform[1])) ELSE xy

\* Lines 221-225: the group transforms applied in list order to the point
\* get_coordinates returned.
resolve(xy, gtransform) ==
  IF gtransform # None THEN apply_in_order(xy, gtransform[1]) ELSE xy

\* An inclusion test without the truthiness test of line 227.
included_zero_allowed(x, y, w) ==
  w.x_min <= x /\ x <= w.x_max /\ w.y_min <= y /\ y <= w.y_max

\* Lines 227-228: `if x and y` is false for a coordinate that is 0.
included(x, y, w) ==
  /\ x # 0 /\ y # 0
  /\ w.x_min <= x /\ x <= w.x_max /\ w.y_min <= y /\ y <= w.y_max

\* An append of the element the coordinates were read from.
appended_sube(e, sube) == sube.ref

\* Line 229: out_svg.append(e) adds the Drawings child itself.  An xml.etree
\* element has no parent pointer: appending it leaves the source tree as is.
appended(e, sube) == e.ref

\* ------------------------------------------------------------ documents
\* Longest Drawings layer and longest Export layer that are enumerated.
MaxDrawings == 2
MaxRects == 2

Circle(x, y) == Elem("circle", [cx |-> x, cy |-> y], <<>>)
Tr(o, t) == [op |-> o, operand |-> t]
G(attrib, children) == Elem("g", attrib, children)

\* rect (5,5) -> own scale(-1,1) -> (-5,5) -> rotate(-90) -> (5,5)
\* -> translate(5,5) -> (10,10); any other order of the three ends elsewhere.
NestedGroup ==
  G([transform |-> Tr("translate", <<5, 5>>)],
    <<G([transform |-> Tr("rotate", <<-90>>)],
        <<Elem("rect", [x |-> 5, y |-> 5, transform |-> Tr("scale", <<-1, 1>>)], <<>>),
          Circle(5, 5)>>),
      Circle(5, 5)>>)

\* Drawings children that may stand at every position of the layer.
CoreDrawings ==
  {Circle(5, 5), Circle(0, 5), Elem("rect", [x |-> 3, y |-> 3], <<>>), NestedGroup}

\* Drawings children of which a layer holds at most one.
OtherDrawings ==
  {\* anchors on and around the window bounds
   Circle(5, 0), Circle(10, 10), Circle(11, 10), Circle(10, 11), Circle(4, 5),
   \* the other kinds
   Elem("path", [d |-> [cmd |-> "M", pts |-> <<<<5, 5>>, <<9, 9>>>>]], <<>>),
   Elem("ellipse", [cx |-> 10, cy |-> 5, x |-> 0, y |-> 0], <<>>),
   Elem("text", [x |-> 5, y |-> 10, cx |-> 0, cy |-> 0], <<>>),
   \* missing position attributes, with and without a transform
   Elem("circle", [cx |-> 5, transform |-> Tr("translate", <<5, 5>>)], <<>>),
   Elem("ellipse", [cy |-> 5, x |-> 5, y |-> 5], <<>>),
   Elem("path", [x |-> 5, y |-> 5, transform |-> Tr("translate", <<5, 5>>)], <<>>),
   Elem("path", [d |-> EmptyD, x |-> 5, y |-> 5], <<>>),
   Elem("rect", [x |-> 5, cx |-> 5, cy |-> 5], <<>>),
   Elem("text", [y |-> 5, transform |-> Tr("translate", <<5, 5>>)], <<>>),
   \* own transforms
   Elem("rect", [x |-> 5, y |-> 5, transform |-> Tr("translate", <<5, 5>>)], <<>>),
   Elem("circle", [cx |-> -5, cy |-> -5, transform |-> Tr("scale", <<-3>>)], <<>>),
   Elem("circle", [cx |-> 5, cy |-> 5, transform |-> Tr("skewX", <<30>>)], <<>>),
   \* groups
   G([transform |-> Tr("translate", <<5>>)], <<Circle(0, 5)>>),
   G([transform |-> Tr("translate", <<-5, 0>>)], <<Circle(5, 5)>>),
   G([label |-> "g"], <<Circle(5, 5)>>),
   G([label |-> "g"], <<Circle(20, 20), Circle(5, 5)>>),
   G([transform |-> Tr("translate", <<5, 5>>)],
     <<Elem("circle", [cx |-> 5], <<>>), Circle(5, 5)>>),
   G([transform |-> Tr("rotate", <<90, 5, 5>>)],
     <<G([label |-> "g"], <<G([transform |-> Tr("translate", <<0, -2>>)],
                             <<Circle(5, 5)>>)>>)>>),
   \* groups without a first child
   G([transform |-> Tr("translate", <<5, 5>>)], <<>>),
   G([label |-> "g"], <<G([label |-> "g"], <<>>), Circle(5, 5)>>)}

Rect(attrib) == Elem("rect", attrib, <<>>)

\* Children of the Export layer: two windows with an id, a rectangle without
\* an id, one without an id and without x and y, and a child that is no
\* rectangle.
ExportChildren ==
  {Rect([id |-> "A", x |-> 0, y |-> 0, width |-> 10, height |-> 10]),
   Rect([id |-> "B", x |-> 5, y |-> 5, width |-> 5, height |-> 5]),
   Rect([x |-> 0, y |-> 0, width |-> 10, height |-> 10]),
   Rect([width |-> 10, height |-> 10]),
   Elem("text", [id |-> "T", x |-> 0, y |-> 0], <<>>)}

\* The sequences over core of length at most n in which at most one position
\* holds an element of other instead.
Layers(core, other, n) ==
  UNION {Tuples(core, k) \cup
           {[s EXCEPT ![i] = f] : s \in Tuples(core, k), i \in 1..k, f \in other}
         : k \in 0..n}

\* Every child of a layer gets its identity: its position in the layer.
Placed(layer) == [i \in 1..Len(layer) |-> Relabel(layer[i], <<i>>)]

DrawingLayers ==
  {Some(Placed(l)) : l \in Layers(CoreDrawings, OtherDrawings, MaxDrawings)}

ExportLayers ==
  {None} \cup {Some(Placed(l)) : l \in Layers(ExportChildren, {}, MaxRects)}

\* The parsed input: root.find() of the two layers (None when there is no
\* such layer) and the top-level defs.
Documents ==
  [export_layer : ExportLayers, drawing_layer : DrawingLayers \cup {None},
   defs : {<<"defs">>}]

VARIABLES
  targ, tres,   \* a call of transform_coordinates: its arguments, its result
  garg, gres,   \* a call of get_first_ungrouped_element: argument, result
  root,         \* the parsed input document
  pc,           \* where parse_and_export stands
  err,          \* the exception that ended the run, if any
  ri,           \* position of the loop over export_layer (line 168)
  di,           \* position of the loop over drawing_layer (line 199)
  win,          \* x_min, y_min, x_max, y_max of the current rectangle
  out_svg,      \* the output document being built
  tested,       \* per finished iteration of the inner loop of this window:
                \* e, sube, gtransform, xy and the point that was tested
  out_files,    \* the list out_files
  written,      \* the tree.write() calls made so far, in order
  ret           \* the returned list, once returned

tvars == <<targ, tres>>
gvars == <<garg, gres>>
pvars == <<root, pc, err, ri, di, win, out_svg, tested, out_files, written, ret>>
vars == <<targ, tres, garg, gres, root, pc, err, ri, di, win, out_svg, tested,
          out_files, written, ret>>

\* The variables of a function that is not in use.
IdleT == targ = None /\ tres = None
IdleG == garg = None /\ gres = None
IdleP ==
  /\ root = [export_layer |-> None, drawing_layer |-> None, defs |-> <<>>]
  /\ pc = "idle" /\ err = None /\ ri = 0 /\ di = 0 /\ win = None
  /\ out_svg = None /\ tested = <<>> /\ out_files = <<>> /\ written = <<>>
  /\ ret = None

\* ------------------------------------------------ the evaluator alone
\* A call of transform_coordinates about to be made.
InitT ==
  /\ \E x \in Coords, y \in Coords, transformation \in Descriptors :
       targ = Some([x |-> x, y |-> y, transformation |-> transformation])
  /\ tres = None
  /\ IdleG /\ IdleP

\* The call returns.
Apply ==
  /\ targ # None
  /\ tres = None
  /\ tres' = Some(transform_coordinates(targ[1].x, targ[1].y, targ[1].transformation))
  /\ UNCHANGED <<targ, gvars, pvars>>

NextT == Apply

SpecT == InitT /\ [][NextT]_vars

\* -------------------------------------------------- the descent alone
\* A call of get_first_ungrouped_element about to be made.
InitG ==
  /\ garg \in {Some(g) : g \in DescentInputs}
  /\ gres = None
  /\ IdleT /\ IdleP

\* The call returns or raises.
Descend ==
  /\ garg # None
  /\ gres = None
  /\ gres' = Some(get_first_ungrouped_element(garg[1]))
  /\ UNCHANGED <<garg, tvars, pvars>>

NextG == Descend

SpecG == InitG /\ [][NextG]_vars

\* ------------------------------------------------------ parse_and_export
\* parse_and_export has been called on a document.
Init ==
  /\ root \in Documents
  /\ pc = "start" /\ err = None /\ ri = 0 /\ di = 0 /\ win = None
  /\ out_svg = None /\ tested = <<>> /\ out_files = <<>> /\ written = <<>>
  /\ ret = None
  /\ IdleT /\ IdleG

export_layer == root.export_layer[1]
drawing_layer == root.drawing_layer[1]

\* Lines 160-164: no Export layer.
NoExportLayer ==
  /\ pc = "start"
  /\ root.export_layer = None
  /\ pc' = "error"
  /\ err' = Some("RuntimeError")
  /\ UNCHANGED <<root, ri, di, win, out_svg, tested, out_files, written, ret, tvars, gvars>>

\* Lines 160-168: the Export layer is found, the loop over it starts.
FindLayers ==
  /\ pc = "start"
  /\ root.export_layer # None
  /\ pc' = "rect"
  /\ ri' = 1
  /\ out_files' = <<>>
  /\ UNCHANGED <<root, err, di, win, out_svg, tested, written, ret, tvars, gvars>>

\* Lines 169-172: a child of the Export layer that is no rectangle.
SkipNonRect ==
  /\ pc = "rect"
  /\ ri <= Len(export_layer)
  /\ export_layer[ri].tag # "rect"
  /\ ri' = ri + 1
  /\ UNCHANGED <<root, pc, err, di, win, out_svg, tested, out_files, written, ret, tvars, gvars>>

\* Lines 174-186: float(None) raises TypeError for a rectangle that lacks x,
\* y, width or height; the id is looked at only later.
RectBadGeometry ==
  /\ pc = "rect"
  /\ ri <= Len(export_layer)
  /\ export_layer[ri].tag = "rect"
  /\ window(export_layer[ri]) = None
  /\ pc' = "error"
  /\ err' = Some("TypeError")
  /\ win' = None
  /\ out_svg' = None
  /\ tested' = <<>>
  /\ UNCHANGED <<root, ri, di, out_files, written, ret, tvars, gvars>>

\* Lines 174-197: a rectangle without an id: the output root is prepared and
\* then dropped by the continue.
RectNoId ==
  /\ pc = "rect"
  /\ ri <= Len(export_layer)
  /\ export_layer[ri].tag = "rect"
  /\ window(export_layer[ri]) # None
  /\ Get(export_layer[ri].attrib, "id") = None
  /\ win' = window(export_layer[ri])
  /\ out_svg' = Some(new_out_svg(root.defs, window(export_layer[ri])[1]))
  /\ tested' = <<>>
  /\ ri' = ri + 1
  /\ UNCHANGED <<root, pc, err, di, out_files, written, ret, tvars, gvars>>

\* Lines 174-199 with no Drawings layer: iterating over None raises TypeError.
RectNoDrawings ==
  /\ pc = "rect"
  /\ ri <= Len(export_layer)
  /\ export_layer[ri].tag = "rect"
  /\ window(export_layer[ri]) # None
  /\ Get(export_layer[ri].attrib, "id") # None
  /\ root.drawing_layer = None
  /\ win' = window(export_layer[ri])
  /\ out_svg' = Some(new_out_svg(root.defs, window(export_layer[ri])[1]))
  /\ pc' = "error"
  /\ err' = Some("TypeError")
  /\ tested' = <<>>
  /\ UNCHANGED <<root, ri, di, out_files, written, ret, tvars, gvars>>

\* A rectangle whose output root is the previous window's.
RectOpen_reused_out_svg ==
  /\ pc = "rect"
  /\ ri <= Len(export_layer)
  /\ export_layer[ri].tag = "rect"
  /\ window(export_layer[ri]) # None
  /\ Get(export_layer[ri].attrib, "id") # None
  /\ root.drawing_layer # None
  /\ win' = window(export_layer[ri])
  /\ out_svg' = IF out_svg = None
                THEN Some(new_out_svg(root.defs, window(export_layer[ri])[1]))
                ELSE Some([new_out_svg(root.defs, window(export_layer[ri])[1])
                             EXCEPT !.elems = out_svg[1].elems])
  /\ pc' = "elem"
  /\ di' = 1
  /\ tested' = <<>>
  /\ UNCHANGED <<root, err, ri, out_files, written, ret, tvars, gvars>>

\* Lines 174-199: a rectangle with an id: a fresh output root, the window, and
\* the loop over the Drawings layer starts.
RectOpen ==
  /\ pc = "rect"
  /\ ri <= Len(export_layer)
  /\ export_layer[ri].tag = "rect"
  /\ window(export_layer[ri]) # None
  /\ Get(export_layer[ri].attrib, "id") # None
  /\ root.drawing_layer # None
  /\ win' = window(export_layer[ri])
  /\ out_svg' = Some(new_out_svg(root.defs, window(export_layer[ri])[1]))
  /\ pc' = "elem"
  /\ di' = 1
  /\ tested' = <<>>
  /\ UNCHANGED <<root, err, ri, out_files, written, ret, tvars, gvars>>

\* An iteration that swallows the StopIteration of the descent and goes on.
ElemRaise_swallowed ==
  /\ pc = "elem"
  /\ di <= Len(drawing_layer)
  /\ descend(drawing_layer[di]).raised
  /\ di' = di + 1
  /\ tested' = Append(tested, [e |-> drawing_layer[di].ref, sube |-> None,
                               gtransform |-> None, xy |-> None, pt |-> None])
  /\ UNCHANGED <<root, pc, err, ri, win, out_svg, out_files, written, ret, tvars, gvars>>

\* Lines 199-208: the descent meets a group without children; StopIteration
\* leaves parse_and_export.
ElemRaise ==
  /\ pc = "elem"
  /\ di <= Len(drawing_layer)
  /\ descend(drawing_layer[di]).raised
  /\ pc' = "error"
  /\ err' = Some("StopIteration")
  /\ UNCHANGED <<root, ri, di, win, out_svg, tested, out_files, written, ret, tvars, gvars>>

\* Lines 199-229: one iteration over a Drawings child, up to the continue or
\* the end of the loop body.
ElemStep ==
  /\ pc = "elem"
  /\ di <= Len(drawing_layer)
  /\ ~descend(drawing_layer[di]).raised
  /\ LET e == drawing_layer[di]
         r == descend(e)
         sube == r.sube[1]
         xy == get_coordinates(sube)
         pt == IF xy = None THEN None ELSE Some(resolve(xy[1], r.gtransform))
     IN  /\ tested' = Append(tested, [e |-> e.ref, sube |-> Some(sube.ref),
                                      gtransform |-> r.gtransform, xy |-> xy,
                                      pt |-> pt])
         /\ out_svg' = IF pt # None /\ included(pt[1][1], pt[1][2], win[1])
                       THEN Some([out_svg[1] EXCEPT
                                    !.elems = Append(@, appended(e, sube))])
                       ELSE out_svg
  /\ di' = di + 1
  /\ UNCHANGED <<root, pc, err, ri, win, out_files, written, ret, tvars, gvars>>

\* Lines 231-234: the Drawings layer is exhausted: the output is written and
\* its name recorded.  rect tells which rectangle the write belongs to.
WriteFile ==
  /\ pc = "elem"
  /\ di > Len(drawing_layer)
  /\ written' = Append(written, [name |-> export_layer[ri].attrib.id,
                                 rect |-> ri, svg |-> out_svg[1]])
  /\ out_files' = Append(out_files, export_layer[ri].attrib.id)
  /\ ri' = ri + 1
  /\ pc' = "rect"
  /\ UNCHANGED <<root, err, di, win, out_svg, tested, ret, tvars, gvars>>

\* Line 236: the Export layer is exhausted.
Return ==
  /\ pc = "rect"
  /\ ri > Len(export_layer)
  /\ pc' = "done"
  /\ ret' = Some(out_files)
  /\ UNCHANGED <<root, err, ri, di, win, out_svg, tested, out_files, written, tvars, gvars>>

Next ==
  \/ NoExportLayer
  \/ FindLayers
  \/ SkipNonRect
  \/ RectBadGeometry
  \/ RectNoId
  \/ RectNoDrawings
  \/ RectOpen
  \/ ElemRaise
  \/ ElemStep
  \/ WriteFile
  \/ Return

Spec == Init /\ [][Next]_vars

\* ------------------------------------------------------------- claims
\* C9: a scale descriptor never changes the magnitude of a coordinate; with
\* operands sx and sy (sy = sx when only one is given) the result is
\* (-x if sx < 0 else x, -y if sy < 0 else y), each axis on its own.
C9_ScaleSignOnly ==
  (tres # None /\ targ[1].transformation.op = "scale") =>
    LET x == targ[1].x
        y == targ[1].y
        operand == targ[1].transformation.operand
        sx == operand[1]
        sy == IF Len(operand) = 1 THEN sx ELSE operand[2]
    IN  /\ Abs(tres[1][1]) = Abs(x)
        /\ Abs(tres[1][2]) = Abs(y)
        /\ Len(operand) \in {1, 2} =>
             /\ tres[1][1] = (IF sx < 0 THEN -x ELSE x)
             /\ tres[1][2] = (IF sy < 0 THEN -y ELSE y)

\* scale(-2,1) has mapped (3,4) to (-3,4).
C9_Witness ==
  /\ tres = Some(<<-3, 4>>)
  /\ targ = Some([x |-> 3, y |-> 4,
                  transformation |-> [op |-> "scale", operand |-> <<-2, 1>>]])

RECURSIVE QuarterTurns(_, _)
\* The point p turned k times by a quarter turn, (x, y) -> (-y, x).
QuarterTurns(p, k) ==
  IF k = 0 THEN p ELSE QuarterTurns(<<-p[2], p[1]>>, k - 1)

\* C10: rotate takes the angle from the first operand and the centre by
\* operand count: (cx, cy) as given with three operands, (0, 0) with the angle
\* alone, (second operand, 0) with two; the point is shifted by (-cx, -cy),
\* rotated by the angle and shifted back.
C10_RotateOperandCount ==
  (/\ tres # None
   /\ targ[1].transformation.op = "rotate"
   /\ Len(targ[1].transformation.operand) \in {1, 2, 3}) =>
    LET operand == targ[1].transformation.operand
        angle == operand[1]
        cx == IF Len(operand) >= 2 THEN operand[2] ELSE 0
        cy == IF Len(operand) = 3 THEN operand[3] ELSE 0
        turned == QuarterTurns(<<targ[1].x - cx, targ[1].y - cy>>,
                               (angle % 360) \div 90)
    IN  tres[1] = <<turned[1] + cx, turned[2] + cy>>

\* rotate(90,2) has turned (3,4) about (2,0) into (-2,1).
C10_Witness ==
  /\ tres = Some(<<-2, 1>>)
  /\ targ = Some([x |-> 3, y |-> 4,
                  transformation |-> [op |-> "rotate", operand |-> <<90, 2>>]])

RECURSIVE FirstChildChain(_, _)
\* The groups met from e downwards by always taking the first child, outermost
\* first, and the element the walk stops at (a group only when it is empty).
FirstChildChain(e, groups) ==
  IF e.tag = "g" /\ Len(e.children) > 0
  THEN FirstChildChain(e.children[1], Append(groups, e))
  ELSE [groups |-> groups, leaf |-> e]

HasTransform(e) == "transform" \in DOMAIN e.attrib

RECURSIVE OnlyFirstChildren(_)
\* The tree e with every child but the first of each group removed.
OnlyFirstChildren(e) ==
  IF Len(e.children) = 0 THEN e
  ELSE [e EXCEPT !.children = <<OnlyFirstChildren(e.children[1])>>]

\* C2: for a group whose first-child chain ends in a non-group leaf,
\* get_first_ungrouped_element returns that very leaf, never a group, with the
\* transforms of exactly the chain's groups that carry one, innermost group
\* first and outermost last; other children change nothing of the result.
C2_DescentChain ==
  (gres # None /\ FirstChildChain(garg[1], <<>>).leaf.tag # "g") =>
    LET chain == FirstChildChain(garg[1], <<>>)
        carrying == SelectSeq(Reverse(chain.groups), HasTransform)
        bare == get_first_ungrouped_element(OnlyFirstChildren(garg[1]))
    IN  /\ ~gres[1].raised
        /\ gres[1].element[1].ref = chain.leaf.ref
        /\ gres[1].element[1].tag # "g"
        /\ gres[1].gtransforms =
             [i \in 1..Len(carrying) |-> carrying[i].attrib.transform]
        /\ bare.element[1].ref = gres[1].element[1].ref
        /\ bare.gtransforms = gres[1].gtransforms

\* G_outer(T1) > G_inner(T2) > rect, with a sibling after the inner group, has
\* been descended to (rect, [T2, T1]).
C2_Witness ==
  /\ gres # None
  /\ ~gres[1].raised
  /\ garg[1].attrib = [label |-> "g", transform |-> T1]
  /\ Len(garg[1].children) = 2
  /\ garg[1].children[1].tag = "g"
  /\ garg[1].children[1].attrib = [label |-> "g", transform |-> T2]
  /\ garg[1].children[1].children[1].tag = "rect"
  /\ gres[1].element[1].ref = <<1, 1, 1>>
  /\ gres[1].gtransforms = <<T2, T1>>

\* ------------------------------------------- claims on parse_and_export
Range(f) == {f[i] : i \in DOMAIN f}

RECURSIVE StructuralPoint(_)
\* The point of an element by structure: a leaf's raw anchor under its own
\* transform; a group's first child's point under the group's transform.
\* None where there is no anchor.  Not defined below an empty group.
StructuralPoint(e) ==
  IF e.tag = "g"
  THEN LET p == StructuralPoint(e.children[1])
       IN  IF p # None /\ HasTransform(e)
           THEN Some(transform_coordinates(p[1][1], p[1][2], e.attrib.transform))
           ELSE p
  ELSE LET r == raw_xy(e)
       IN  IF r[1] = None \/ r[2] = None THEN None
           ELSE IF HasTransform(e)
           THEN Some(transform_coordinates(r[1][1], r[2][1], e.attrib.transform))
           ELSE Some(<<r[1][1], r[2][1]>>)

\* The first-child chain of e ends in a group without children.
EmptyChain(e) == FirstChildChain(e, <<>>).leaf.tag = "g"

\* An inner loop is under way or has ended in this state.
InWindow == win # None /\ out_svg # None /\ root.drawing_layer # None

\* C1: a Drawings child whose resolved point (x, y) was computed is in the
\* window's output iff x # 0, y # 0, x_min <= x <= x_max and
\* y_min <= y <= y_max, all four bounds inclusive.
C1_Membership ==
  InWindow =>
    \A k \in 1..Len(tested) :
      tested[k].pt # None =>
        LET x == tested[k].pt[1][1]
            y == tested[k].pt[1][2]
        IN  (tested[k].e \in Range(out_svg[1].elems)) <=>
              (/\ x # 0 /\ y # 0
               /\ win[1].x_min <= x /\ x <= win[1].x_max
               /\ win[1].y_min <= y /\ y <= win[1].y_max)

\* Window [0,10] x [0,10]: (0,5) was left out, (10,10) was taken.
C1_Witness ==
  /\ InWindow
  /\ win[1] = [x_min |-> 0, y_min |-> 0, x_max |-> 10, y_max |-> 10]
  /\ Len(tested) = 2
  /\ tested[1].pt = Some(<<0, 5>>)
  /\ tested[2].pt = Some(<<10, 10>>)
  /\ out_svg[1].elems = <<tested[2].e>>

\* C3: the point tested for a group is the descended leaf's raw anchor under
\* the leaf's own transform, then under each enclosing group's transform from
\* the nearest group out to the top-level one; for a child that is no group
\* only its own transform is applied.
C3_ResolutionOrder ==
  InWindow =>
    \A k \in 1..Len(tested) :
      /\ tested[k].pt = StructuralPoint(drawing_layer[k])
      /\ drawing_layer[k].tag # "g" =>
           /\ tested[k].gtransform = None
           /\ tested[k].pt = tested[k].xy

\* The nested group was resolved through scale, rotate and translate to
\* (10,10).
C3_Witness ==
  /\ InWindow
  /\ Len(tested) >= 1
  /\ drawing_layer[1].tag = "g"
  /\ tested[1].gtransform # None
  /\ Len(tested[1].gtransform[1]) = 2
  /\ tested[1].xy = Some(<<-5, 5>>)
  /\ tested[1].pt = Some(<<10, 10>>)

\* The refs in elems are Drawings children, in layer order, none twice.
InLayerOrder(elems) ==
  /\ \A i \in 1..Len(elems) :
       Len(elems[i]) = 1 /\ elems[i][1] \in 1..Len(drawing_layer)
  /\ \A i, j \in 1..Len(elems) : i < j => elems[i][1] < elems[j][1]

\* C5: what a window's output holds are direct children of the Drawings
\* layer (a whole top-level group, never an inner element), each once, in the
\* order of the layer.
C5_TopLevelInOrder ==
  /\ InWindow => InLayerOrder(out_svg[1].elems)
  /\ \A k \in 1..Len(written) : InLayerOrder(written[k].svg.elems)

\* An output was written that holds a top-level group and the child after it.
C5_Witness ==
  /\ Len(written) >= 1
  /\ written[1].svg.elems = <<<<1>>, <<2>>>>
  /\ drawing_layer[1].tag = "g"

\* The Drawings children a rectangle's attributes select, by structure.
SelectedBy(rect, layer) ==
  LET In(i) ==
        LET p == StructuralPoint(layer[i])
        IN  /\ p # None
            /\ p[1][1] # 0 /\ p[1][2] # 0
            /\ rect.attrib.x <= p[1][1]
            /\ p[1][1] <= rect.attrib.x + rect.attrib.width
            /\ rect.attrib.y <= p[1][2]
            /\ p[1][2] <= rect.attrib.y + rect.attrib.height
      picked == SelectSeq([i \in 1..Len(layer) |-> i], In)
  IN  [k \in 1..Len(picked) |-> <<picked[k]>>]

\* C7: what is written for a window is a function of that rectangle's x, y,
\* width, height and of the Drawings layer alone, whatever else the Export
\* layer holds; no step changes the source document.
C7_WindowsIndependent ==
  /\ [](\A k \in 1..Len(written) :
          written[k].svg.elems =
            SelectedBy(export_layer[written[k].rect], drawing_layer))
  /\ [][root' = root]_vars

\* Two windows were written, the second after a non-empty first one, with
\* different contents.
C7_Witness ==
  /\ Len(written) = 2
  /\ written[1].svg.elems # <<>>
  /\ written[2].svg.elems # <<>>
  /\ written[1].svg.elems # written[2].svg.elems

\* The position attributes get_coordinates needs are not all there.
MissingPosition(e) ==
  CASE e.tag \in {"circle", "ellipse"} ->
         "cx" \notin DOMAIN e.attrib \/ "cy" \notin DOMAIN e.attrib
    [] e.tag = "path" -> "d" \notin DOMAIN e.attrib
    [] OTHER -> "x" \notin DOMAIN e.attrib \/ "y" \notin DOMAIN e.attrib

\* C8: for an element that lacks a required position attribute
\* get_coordinates returns None, transform or not; a Drawings child that is
\* such an element, or a group descending to one, enters no output, and the
\* loop goes on to the next child without an error.
C8_MissingPositionSkipped ==
  InWindow =>
    /\ \A k \in 1..Len(tested) :
         LET leaf == FirstChildChain(drawing_layer[k], <<>>).leaf
         IN  MissingPosition(leaf) =>
               /\ get_coordinates(leaf) = None
               /\ tested[k].xy = None
               /\ tested[k].pt = None
               /\ <<k>> \notin Range(out_svg[1].elems)
    /\ pc = "elem" => Len(tested) = di - 1
    /\ pc = "error" => EmptyChain(drawing_layer[di])

\* A group over a circle without cy was passed over, and so was a text with
\* a transform and no x; the loop went on after each.
C8_Witness ==
  /\ InWindow
  /\ pc = "elem"
  /\ Len(tested) = 2
  /\ \E k \in 1..2 :
       /\ drawing_layer[k].tag \in {"g", "text"}
       /\ MissingPosition(FirstChildChain(drawing_layer[k], <<>>).leaf)
       /\ HasTransform(drawing_layer[k])
       /\ tested[k].xy = None
  /\ out_svg[1].elems = <<<<2>>>>

\* C6: a missing Export layer and a group without children met by the
\* descent end the run in an error at once: nothing is returned, no further
\* Drawings child or rectangle is processed, and no output has been written
\* for any window.
C6_FatalAborts ==
  /\ root.export_layer = None =>
       /\ pc \in {"start", "error"}
       /\ pc = "error" => err = Some("RuntimeError")
       /\ ri = 0 /\ di = 0 /\ out_svg = None
  /\ (pc = "error" /\ err \in {Some("RuntimeError"), Some("StopIteration")}) =>
       /\ ret = None
       /\ written = <<>>
       /\ out_files = <<>>
  /\ (pc = "error" /\ err = Some("StopIteration")) =>
       /\ EmptyChain(drawing_layer[di])
       /\ Len(tested) = di - 1
       /\ \A k \in 1..Len(tested) : ~EmptyChain(drawing_layer[k])
  /\ (pc = "elem" /\ di > 1) => ~EmptyChain(drawing_layer[di - 1])
  /\ written # <<>> =>
       \A k \in 1..Len(drawing_layer) : ~EmptyChain(drawing_layer[k])

\* The descent raised at the second Drawings child of the first window with
\* an id, after an id-less rectangle and after the first child was taken.
C6_Witness ==
  /\ pc = "error"
  /\ err = Some("StopIteration")
  /\ ri = 2 /\ di = 2
  /\ out_svg[1].elems = <<<<1>>>>
  /\ written = <<>>
  /\ ret = None

IdLess(e) == e.tag = "rect" /\ "id" \notin DOMAIN e.attrib
WithId(e) == e.tag = "rect" /\ "id" \in DOMAIN e.attrib

\* C4, as stated: a rectangle without an id raises no error and produces no
\* output and no entry, and the rectangles with an id before and after it
\* produce what they produce without it.
C4_IdLessSkipped ==
  root.export_layer # None =>
  /\ pc = "error" => ~(ri \in 1..Len(export_layer) /\ IdLess(export_layer[ri]))
  /\ \A k \in 1..Len(written) : WithId(export_layer[written[k].rect])
  /\ pc = "done" =>
       LET bearing == SelectSeq(export_layer, WithId)
       IN  /\ ret = Some([k \in 1..Len(bearing) |-> bearing[k].attrib.id])
           /\ Len(written) = Len(bearing)
           /\ \A k \in 1..Len(written) :
                /\ written[k].name = bearing[k].attrib.id
                /\ written[k].svg.elems = SelectedBy(bearing[k], drawing_layer)

====
